---- MODULE Spec2Model ----
(***************************************************************************)
(* Robigo Luculenta: the render pipeline scheduler (src/task_scheduler.rs) *)
(* shared by the worker loops of src/app.rs.                               *)
(*                                                                         *)
(* A unit is modelled by its id: trace units 0 .. 3C-1, plot units         *)
(* 0 .. max(1, C/2)-1, the gather unit "G" and the tonemap unit "T".       *)
(* A Box<Unit> is owned by exactly the collection or Task that holds its   *)
(* id.  RingBuf and Vec are sequences (front = index 1), Option is a       *)
(* sequence of length at most one.                                         *)
(***************************************************************************)
EXTENDS Integers, Sequences, FiniteSets, TLC

(***************************************************************************)
(* Bounds of the model.                                                    *)
(***************************************************************************)
\* The systems that are checked, each as
\*   <<concurrency, number of worker loops, trace budget>>.
\* App::new starts `concurrency` workers; the scheduler itself serves any
\* number of callers.  There is one plot unit under one, two or three
\* workers, and there are two plot units under a single worker.  The trace
\* budget bounds the u32 counter traces_completed.
Configurations ==
    {<<1, 1, 3>>, <<2, 1, 6>>, <<4, 1, 12>>, <<1, 3, 3>>, <<2, 2, 4>>}
\* The clock stops advancing after this many seconds.
MaxTime == 90
\* A Trace task is not retired any more once traces_completed reached the
\* trace budget of the system plus this value.
ExtraTraces == 0
\* The canvas of a GatherUnit is at most this wide and this high.
MaxWidth == 2
MaxHeight == 2
\* The values of the bytes of buffer.raw: zero and not zero.
Bytes == {0, 255}

(***************************************************************************)
(* Program constants.                                                      *)
(***************************************************************************)
\* fn tonemap_interval() -> Duration { Duration::seconds(30) }
tonemap_interval == 30
\* if self.performance.len() > 512 { self.performance.pop_front(); }
PerformanceWindow == 512
\* let xyz: &mut [u8, ..12] = unsafe { transmute(trist) };
Vector3Bytes == 12

\* Seconds the clock advances in one step of the clock: half an interval,
\* so that a clock read falls exactly on the interval as well as past it.
ClockStep == tonemap_interval \div 2

VARIABLES
    concurrency,     \* app.rs: let concurrency = num_cpus();
    workers,         \* the number of worker loops that were started
    task_scheduler,  \* the TaskScheduler behind the Arc<Mutex<..>>
    task,            \* task[w]: the `task` variable of worker w's loop
    now,             \* the wall clock read by get_time(), in seconds
    panicked,        \* an unwrap() on None was reached
    pc,              \* pc[w]: where worker w is in its loop
    mutex,           \* the worker that holds the scheduler's Mutex, or 0
    tristimulus_buffer, \* per plot unit: the buffer is not all zero
    img_rx,          \* img_rx[w]: the images in the channel of worker w
    images,          \* the images routed to App.images, oldest first
    stop,            \* the stop signals in the channel App.stop
    stop_rx,         \* stop_rx[w]: the stop signals in worker w's channel
    supervisor,      \* the supervisor task: "running" or "done"
    image_width,     \* the width of the canvas, in pixels
    image_height,    \* the height of the canvas, in pixels
    buffer_raw,      \* the file buffer.raw: None, or Some(its bytes)
    gather           \* the GatherUnit of the scheduler and how it was made

\* The state of App::new's tasks and channels and of the units' buffers.
app_vars ==
    <<pc, mutex, tristimulus_buffer, img_rx, images, stop, stop_rx, supervisor>>

\* The canvas, the snapshot file and the unit that GatherUnit::new makes.
gather_vars == <<image_width, image_height, buffer_raw, gather>>

vars ==
    <<concurrency, workers, task_scheduler, task, now, panicked, pc, mutex,
      tristimulus_buffer, img_rx, images, stop, stop_rx, supervisor,
      image_width, image_height, buffer_raw, gather>>

(***************************************************************************)
(* Helpers for std collections.                                            *)
(***************************************************************************)
max(a, b) == IF a >= b THEN a ELSE b

None == <<>>

Some(x) == <<x>>

is_some(o) == o # <<>>

is_empty(q) == Len(q) = 0

\* (0 .. n).collect(): the ids 0, 1, .., n-1 in increasing order.
range(n) == [i \in 1..n |-> i - 1]

\* The elements of a sequence, as a set.
Elems(q) == {q[i] : i \in 1..Len(q)}

\* pop_front_iter().take(n).collect(): pops the front while the queue is not
\* empty and fewer than n were taken; `taken` are the popped elements in
\* the order they were popped, `rest` is what stays in the container.
RECURSIVE pop_front_take(_, _, _)
pop_front_take(container, n, taken) ==
    IF n = 0 \/ container = <<>>
    THEN [taken |-> taken, rest |-> container]
    ELSE pop_front_take(Tail(container), n - 1, Append(taken, Head(container)))

(***************************************************************************)
(* enum Task                                                               *)
(***************************************************************************)
GatherId == "G"

TonemapId == "T"

Sleep ==
    [kind |-> "Sleep", trace_units |-> <<>>, plot_units |-> <<>>,
     gather_unit |-> None, tonemap_unit |-> None]

Trace(unit) ==
    [kind |-> "Trace", trace_units |-> <<unit>>, plot_units |-> <<>>,
     gather_unit |-> None, tonemap_unit |-> None]

Plot(unit, units) ==
    [kind |-> "Plot", trace_units |-> units, plot_units |-> <<unit>>,
     gather_unit |-> None, tonemap_unit |-> None]

Gather(unit, units) ==
    [kind |-> "Gather", trace_units |-> <<>>, plot_units |-> units,
     gather_unit |-> Some(unit), tonemap_unit |-> None]

Tonemap(t_unit, g_unit) ==
    [kind |-> "Tonemap", trace_units |-> <<>>, plot_units |-> <<>>,
     gather_unit |-> Some(g_unit), tonemap_unit |-> Some(t_unit)]

TaskKinds == {"Sleep", "Trace", "Plot", "Gather", "Tonemap"}

(***************************************************************************)
(* impl TaskScheduler                                                      *)
(***************************************************************************)
\* A TaskScheduler::new that allocates two trace units per core.
TaskScheduler_new_two_per_core(c, time) ==
    [traces_completed      |-> 0,
     performance           |-> 0,
     number_of_trace_units |-> c * 2,
     available_trace_units |-> range(c * 2),
     done_trace_units      |-> <<>>,
     available_plot_units  |-> range(max(1, c \div 2)),
     done_plot_units       |-> <<>>,
     gather_unit           |-> Some(GatherId),
     tonemap_unit          |-> Some(TonemapId),
     last_tonemap_time     |-> time,
     image_changed         |-> FALSE]

\* TaskScheduler::new(concurrency, width, height), called at time `time`.
TaskScheduler_new(c, time) ==
    [traces_completed      |-> 0,
     performance           |-> 0,
     number_of_trace_units |-> c * 3,
     available_trace_units |-> range(c * 3),
     done_trace_units      |-> <<>>,
     available_plot_units  |-> range(max(1, c \div 2)),
     done_plot_units       |-> <<>>,
     gather_unit           |-> Some(GatherId),
     tonemap_unit          |-> Some(TonemapId),
     last_tonemap_time     |-> time,
     image_changed         |-> FALSE]

\* The result of a create_*_task: the scheduler after it, the task, and
\* whether an unwrap() met None (the task is then never returned).
Created(self, t) == [self |-> self, task |-> t, panic |-> FALSE]

Panic(self) == [self |-> self, task |-> Sleep, panic |-> TRUE]

\* A create_trace_task that hands out the front unit and leaves it queued.
create_trace_task_keeps_unit(self) ==
    IF is_empty(self.available_trace_units)
    THEN Panic(self)
    ELSE Created(self, Trace(Head(self.available_trace_units)))

create_trace_task(self) ==
    IF is_empty(self.available_trace_units)
    THEN Panic(self)
    ELSE Created([self EXCEPT !.available_trace_units = Tail(@)],
                 Trace(Head(self.available_trace_units)))

\* A create_plot_task that takes half of the done trace units, even when
\* that is none.
create_plot_task_half(self) ==
    IF is_empty(self.available_plot_units)
    THEN Panic(self)
    ELSE LET plot_unit == Head(self.available_plot_units)
             done == Len(self.done_trace_units)
             n == done \div 2
             popped == pop_front_take(self.done_trace_units, n, <<>>)
         IN  Created([self EXCEPT !.available_plot_units = Tail(@),
                                  !.done_trace_units = popped.rest],
                     Plot(plot_unit, popped.taken))

\* A create_plot_task that rounds half of the done trace units up.
create_plot_task_rounds_up(self) ==
    IF is_empty(self.available_plot_units)
    THEN Panic(self)
    ELSE LET plot_unit == Head(self.available_plot_units)
             done == Len(self.done_trace_units)
             n == max(1, (done + 1) \div 2)
             popped == pop_front_take(self.done_trace_units, n, <<>>)
         IN  Created([self EXCEPT !.available_plot_units = Tail(@),
                                  !.done_trace_units = popped.rest],
                     Plot(plot_unit, popped.taken))

create_plot_task(self) ==
    IF is_empty(self.available_plot_units)
    THEN Panic(self)
    ELSE LET plot_unit == Head(self.available_plot_units)
             done == Len(self.done_trace_units)
             n == max(1, done \div 2)
             popped == pop_front_take(self.done_trace_units, n, <<>>)
         IN  Created([self EXCEPT !.available_plot_units = Tail(@),
                                  !.done_trace_units = popped.rest],
                     Plot(plot_unit, popped.taken))

\* A create_gather_task that takes one done plot unit at a time.
create_gather_task_one_at_a_time(self) ==
    IF ~is_some(self.gather_unit)
    THEN Panic(self)
    ELSE LET popped == pop_front_take(self.done_plot_units, 1, <<>>)
         IN  Created([self EXCEPT !.gather_unit = None,
                                  !.done_plot_units = popped.rest],
                     Gather(Head(self.gather_unit), popped.taken))

create_gather_task(self) ==
    IF ~is_some(self.gather_unit)
    THEN Panic(self)
    ELSE LET popped == pop_front_take(self.done_plot_units,
                                      Len(self.done_plot_units), <<>>)
         IN  Created([self EXCEPT !.gather_unit = None,
                                  !.done_plot_units = popped.rest],
                     Gather(Head(self.gather_unit), popped.taken))

\* A create_tonemap_task that leaves the gather unit in its slot.
create_tonemap_task_leaves_gather(self) ==
    IF ~is_some(self.gather_unit) \/ ~is_some(self.tonemap_unit)
    THEN Panic(self)
    ELSE Created([self EXCEPT !.tonemap_unit = None],
                 Tonemap(Head(self.tonemap_unit), Head(self.gather_unit)))

create_tonemap_task(self) ==
    IF ~is_some(self.gather_unit) \/ ~is_some(self.tonemap_unit)
    THEN Panic(self)
    ELSE Created([self EXCEPT !.gather_unit = None, !.tonemap_unit = None],
                 Tonemap(Head(self.tonemap_unit), Head(self.gather_unit)))

\* A complete_trace_task that does not count the trace.
complete_trace_task_no_count(self, trace_unit) ==
    [self EXCEPT !.done_trace_units = Append(@, trace_unit)]

\* A complete_trace_task that makes the unit available again.
complete_trace_task_to_available(self, trace_unit) ==
    [self EXCEPT !.available_trace_units = Append(@, trace_unit),
                 !.traces_completed = @ + 1]

\* A complete_trace_task that queues the unit at the front.
complete_trace_task_push_front(self, trace_unit) ==
    [self EXCEPT !.done_trace_units = <<trace_unit>> \o @,
                 !.traces_completed = @ + 1]

complete_trace_task(self, trace_unit) ==
    [self EXCEPT !.done_trace_units = Append(@, trace_unit),
                 !.traces_completed = @ + 1]

\* A complete_plot_task that frees the batch in reverse order.
complete_plot_task_reversed(self, plot_unit, trace_units) ==
    [self EXCEPT !.available_trace_units =
                     @ \o [i \in 1..Len(trace_units) |->
                              trace_units[Len(trace_units) + 1 - i]],
                 !.done_plot_units = Append(@, plot_unit)]

\* A complete_plot_task that queues the plotted trace units as done again.
complete_plot_task_to_done(self, plot_unit, trace_units) ==
    [self EXCEPT !.done_trace_units = @ \o trace_units,
                 !.done_plot_units = Append(@, plot_unit)]

\* A complete_plot_task that frees only the first trace unit of the batch.
complete_plot_task_first_only(self, plot_unit, trace_units) ==
    [self EXCEPT !.available_trace_units = Append(@, Head(trace_units)),
                 !.done_plot_units = Append(@, plot_unit)]

complete_plot_task(self, plot_unit, trace_units) ==
    [self EXCEPT !.available_trace_units = @ \o trace_units,
                 !.done_plot_units = Append(@, plot_unit)]

\* A complete_gather_task that frees only the first plot unit.
complete_gather_task_first_only(self, gather_unit, plot_units) ==
    [self EXCEPT !.available_plot_units = Append(@, Head(plot_units)),
                 !.gather_unit = Some(gather_unit),
                 !.image_changed = TRUE]

\* A complete_gather_task that does not flag the image as changed.
complete_gather_task_keeps_flag(self, gather_unit, plot_units) ==
    [self EXCEPT !.available_plot_units = @ \o plot_units,
                 !.gather_unit = Some(gather_unit)]

complete_gather_task(self, gather_unit, plot_units) ==
    [self EXCEPT !.available_plot_units = @ \o plot_units,
                 !.gather_unit = Some(gather_unit),
                 !.image_changed = TRUE]

\* A complete_tonemap_task that leaves image_changed set.
complete_tonemap_task_keeps_flag(self, tonemap_unit, gather_unit, time) ==
    [self EXCEPT !.gather_unit = Some(gather_unit),
                 !.tonemap_unit = Some(tonemap_unit),
                 !.last_tonemap_time = time,
                 !.traces_completed = 0,
                 !.performance = IF @ + 1 > PerformanceWindow THEN @ ELSE @ + 1]

\* A complete_tonemap_task that does not put the gather unit back.
complete_tonemap_task_keeps_gather(self, tonemap_unit, gather_unit, time) ==
    [self EXCEPT !.tonemap_unit = Some(tonemap_unit),
                 !.image_changed = FALSE,
                 !.last_tonemap_time = time,
                 !.traces_completed = 0,
                 !.performance = IF @ + 1 > PerformanceWindow THEN @ ELSE @ + 1]

\* A complete_tonemap_task that does not record the time.
complete_tonemap_task_keeps_time(self, tonemap_unit, gather_unit, time) ==
    [self EXCEPT !.gather_unit = Some(gather_unit),
                 !.tonemap_unit = Some(tonemap_unit),
                 !.image_changed = FALSE,
                 !.traces_completed = 0,
                 !.performance = IF @ + 1 > PerformanceWindow THEN @ ELSE @ + 1]

\* `time` is the get_time() of line 312.  The f32 measurements kept in
\* `performance` are modelled by their number.
complete_tonemap_task(self, tonemap_unit, gather_unit, time) ==
    [self EXCEPT !.gather_unit = Some(gather_unit),
                 !.tonemap_unit = Some(tonemap_unit),
                 !.image_changed = FALSE,
                 !.last_tonemap_time = time,
                 !.traces_completed = 0,
                 !.performance = IF @ + 1 > PerformanceWindow THEN @ ELSE @ + 1]

complete_task(self, t, time) ==
    CASE t.kind = "Sleep"   -> self
      [] t.kind = "Trace"   -> complete_trace_task(self, t.trace_units[1])
      [] t.kind = "Plot"    ->
            complete_plot_task(self, t.plot_units[1], t.trace_units)
      [] t.kind = "Gather"  ->
            complete_gather_task(self, t.gather_unit[1], t.plot_units)
      [] t.kind = "Tonemap" ->
            complete_tonemap_task(self, t.tonemap_unit[1], t.gather_unit[1],
                                  time)

\* The rules without the periodic Gather rule.
decide_no_periodic_gather(self, time) ==
    IF /\ time - self.last_tonemap_time > tonemap_interval
       /\ self.image_changed
       /\ is_some(self.gather_unit) /\ is_some(self.tonemap_unit)
    THEN create_tonemap_task(self)
    ELSE IF /\ Len(self.done_trace_units) > self.number_of_trace_units \div 2
            /\ ~is_empty(self.available_plot_units)
    THEN create_plot_task(self)
    ELSE IF ~is_empty(self.available_trace_units)
    THEN create_trace_task(self)
    ELSE IF /\ ~is_empty(self.available_plot_units)
            /\ ~is_empty(self.done_trace_units)
    THEN create_plot_task(self)
    ELSE IF is_some(self.gather_unit) /\ ~is_empty(self.done_plot_units)
    THEN create_gather_task(self)
    ELSE Created(self, Sleep)

\* The rules with a last Gather rule that waits for the image to be
\* tonemapped before it gathers again.
decide_gather_once(self, time) ==
    IF /\ time - self.last_tonemap_time > tonemap_interval
       /\ self.image_changed
       /\ is_some(self.gather_unit) /\ is_some(self.tonemap_unit)
    THEN create_tonemap_task(self)
    ELSE IF /\ time - self.last_tonemap_time > tonemap_interval
            /\ ~self.image_changed
            /\ is_some(self.gather_unit)
            /\ ~is_empty(self.done_plot_units)
    THEN create_gather_task(self)
    ELSE IF /\ Len(self.done_trace_units) > self.number_of_trace_units \div 2
            /\ ~is_empty(self.available_plot_units)
    THEN create_plot_task(self)
    ELSE IF ~is_empty(self.available_trace_units)
    THEN create_trace_task(self)
    ELSE IF /\ ~is_empty(self.available_plot_units)
            /\ ~is_empty(self.done_trace_units)
    THEN create_plot_task(self)
    ELSE IF /\ ~self.image_changed
            /\ is_some(self.gather_unit) /\ ~is_empty(self.done_plot_units)
    THEN create_gather_task(self)
    ELSE Created(self, Sleep)

\* The rules with the periodic Tonemap rule tried after the Trace rule.
decide_tonemap_after_trace(self, time) ==
    IF /\ time - self.last_tonemap_time > tonemap_interval
       /\ ~self.image_changed
       /\ is_some(self.gather_unit)
       /\ ~is_empty(self.done_plot_units)
    THEN create_gather_task(self)
    ELSE IF /\ Len(self.done_trace_units) > self.number_of_trace_units \div 2
            /\ ~is_empty(self.available_plot_units)
    THEN create_plot_task(self)
    ELSE IF ~is_empty(self.available_trace_units)
    THEN create_trace_task(self)
    ELSE IF /\ time - self.last_tonemap_time > tonemap_interval
            /\ self.image_changed
            /\ is_some(self.gather_unit) /\ is_some(self.tonemap_unit)
    THEN create_tonemap_task(self)
    ELSE IF /\ ~is_empty(self.available_plot_units)
            /\ ~is_empty(self.done_trace_units)
    THEN create_plot_task(self)
    ELSE IF is_some(self.gather_unit) /\ ~is_empty(self.done_plot_units)
    THEN create_gather_task(self)
    ELSE Created(self, Sleep)

\* The rules with "keep tracers busy" tried before "backpressure relief".
decide_trace_first(self, time) ==
    IF /\ time - self.last_tonemap_time > tonemap_interval
       /\ self.image_changed
       /\ is_some(self.gather_unit) /\ is_some(self.tonemap_unit)
    THEN create_tonemap_task(self)
    ELSE IF /\ time - self.last_tonemap_time > tonemap_interval
            /\ ~self.image_changed
            /\ is_some(self.gather_unit)
            /\ ~is_empty(self.done_plot_units)
    THEN create_gather_task(self)
    ELSE IF ~is_empty(self.available_trace_units)
    THEN create_trace_task(self)
    ELSE IF /\ ~is_empty(self.available_plot_units)
            /\ ~is_empty(self.done_trace_units)
    THEN create_plot_task(self)
    ELSE IF is_some(self.gather_unit) /\ ~is_empty(self.done_plot_units)
    THEN create_gather_task(self)
    ELSE Created(self, Sleep)

\* The rules with a periodic check that is due at the interval already.
decide_due_at_interval(self, time) ==
    IF /\ time - self.last_tonemap_time >= tonemap_interval
       /\ self.image_changed
       /\ is_some(self.gather_unit) /\ is_some(self.tonemap_unit)
    THEN create_tonemap_task(self)
    ELSE IF /\ time - self.last_tonemap_time >= tonemap_interval
            /\ ~self.image_changed
            /\ is_some(self.gather_unit)
            /\ ~is_empty(self.done_plot_units)
    THEN create_gather_task(self)
    ELSE IF /\ Len(self.done_trace_units) > self.number_of_trace_units \div 2
            /\ ~is_empty(self.available_plot_units)
    THEN create_plot_task(self)
    ELSE IF ~is_empty(self.available_trace_units)
    THEN create_trace_task(self)
    ELSE IF /\ ~is_empty(self.available_plot_units)
            /\ ~is_empty(self.done_trace_units)
    THEN create_plot_task(self)
    ELSE IF is_some(self.gather_unit) /\ ~is_empty(self.done_plot_units)
    THEN create_gather_task(self)
    ELSE Created(self, Sleep)

\* The rules without the last one, which drains the plot backlog.
decide_no_drain_plot(self, time) ==
    IF /\ time - self.last_tonemap_time > tonemap_interval
       /\ self.image_changed
       /\ is_some(self.gather_unit) /\ is_some(self.tonemap_unit)
    THEN create_tonemap_task(self)
    ELSE IF /\ time - self.last_tonemap_time > tonemap_interval
            /\ ~self.image_changed
            /\ is_some(self.gather_unit)
            /\ ~is_empty(self.done_plot_units)
    THEN create_gather_task(self)
    ELSE IF /\ Len(self.done_trace_units) > self.number_of_trace_units \div 2
            /\ ~is_empty(self.available_plot_units)
    THEN create_plot_task(self)
    ELSE IF ~is_empty(self.available_trace_units)
    THEN create_trace_task(self)
    ELSE IF /\ ~is_empty(self.available_plot_units)
            /\ ~is_empty(self.done_trace_units)
    THEN create_plot_task(self)
    ELSE Created(self, Sleep)

\* The rules with a backpressure rule that does not ask for a plot unit.
decide_plot_unguarded(self, time) ==
    IF /\ time - self.last_tonemap_time > tonemap_interval
       /\ self.image_changed
       /\ is_some(self.gather_unit) /\ is_some(self.tonemap_unit)
    THEN create_tonemap_task(self)
    ELSE IF /\ time - self.last_tonemap_time > tonemap_interval
            /\ ~self.image_changed
            /\ is_some(self.gather_unit)
            /\ ~is_empty(self.done_plot_units)
    THEN create_gather_task(self)
    ELSE IF Len(self.done_trace_units) > self.number_of_trace_units \div 2
    THEN create_plot_task(self)
    ELSE IF ~is_empty(self.available_trace_units)
    THEN create_trace_task(self)
    ELSE IF /\ ~is_empty(self.available_plot_units)
            /\ ~is_empty(self.done_trace_units)
    THEN create_plot_task(self)
    ELSE IF is_some(self.gather_unit) /\ ~is_empty(self.done_plot_units)
    THEN create_gather_task(self)
    ELSE Created(self, Sleep)

\* The rules of get_new_task on the scheduler `self` in which the completed
\* task was retired already; `time` is the get_time() of line 136.
decide(self, time) ==
    IF /\ time - self.last_tonemap_time > tonemap_interval
       /\ self.image_changed
       /\ is_some(self.gather_unit) /\ is_some(self.tonemap_unit)
    THEN create_tonemap_task(self)
    ELSE IF /\ time - self.last_tonemap_time > tonemap_interval
            /\ ~self.image_changed
            /\ is_some(self.gather_unit)
            /\ ~is_empty(self.done_plot_units)
    THEN create_gather_task(self)
    ELSE IF /\ Len(self.done_trace_units) > self.number_of_trace_units \div 2
            /\ ~is_empty(self.available_plot_units)
    THEN create_plot_task(self)
    ELSE IF ~is_empty(self.available_trace_units)
    THEN create_trace_task(self)
    ELSE IF /\ ~is_empty(self.available_plot_units)
            /\ ~is_empty(self.done_trace_units)
    THEN create_plot_task(self)
    ELSE IF is_some(self.gather_unit) /\ ~is_empty(self.done_plot_units)
    THEN create_gather_task(self)
    ELSE Created(self, Sleep)

\* A get_new_task that applies the rules first and retires afterwards.
get_new_task_retire_last(self, completed_task, time1, time2) ==
    LET r == decide(self, time2)
    IN  [r EXCEPT !.self = complete_task(r.self, completed_task, time1)]

\* get_new_task(&mut self, completed_task): time1 is the clock read while
\* the completed task is retired, time2 the clock read of line 136.
get_new_task(self, completed_task, time1, time2) ==
    decide(complete_task(self, completed_task, time1), time2)

(***************************************************************************)
(* The gather unit and its snapshot file (src/gather_unit.rs).  A Vector3  *)
(* is modelled by the twelve bytes of its three f32, as read() and save()  *)
(* see it through transmute; the zero vector is twelve zero bytes.         *)
(***************************************************************************)
min(a, b) == IF a < b THEN a ELSE b

Vector3_zero == [i \in 1..Vector3Bytes |-> 0]

from_elem(length, value) == [i \in 1..length |-> value]

\* file.read(xyz) at offset pos: the bytes that are left, at most as many
\* as xyz holds, overwrite the front of xyz; at the end of the file the
\* result is Err(EndOfFile).
File_read(file, pos, xyz) ==
    LET n == min(Len(xyz), Len(file) - pos)
    IN  IF n = 0
        THEN [ok |-> FALSE, xyz |-> xyz, pos |-> pos]
        ELSE [ok |-> TRUE,
              xyz |-> [i \in 1..Len(xyz) |->
                          IF i <= n THEN file[pos + i] ELSE xyz[i]],
              pos |-> pos + n]

\* The loop of read() from element i of data on; .ok().expect() fails the
\* task when file.read returned Err.
RECURSIVE read_loop(_, _, _, _)
read_loop(data, file, pos, i) ==
    IF i > Len(data)
    THEN [data |-> data, failed |-> FALSE]
    ELSE LET r == File_read(file, pos, data[i])
         IN  IF r.ok
             THEN read_loop([data EXCEPT ![i] = r.xyz], file, r.pos, i + 1)
             ELSE [data |-> data, failed |-> TRUE]

\* A GatherUnit: its two buffers, and whether its construction completed
\* ("constructed"), failed the task ("failed") or was not done yet.
GatherUnit(state, tristimulus, compensation) ==
    [state |-> state,
     tristimulus_buffer |-> tristimulus,
     compensation_buffer |-> compensation]

\* fn read(&mut self), with the file system's buffer.raw as an argument.
GatherUnit_read(self, file) ==
    IF file = None
    THEN self
    ELSE LET length == Len(self.tristimulus_buffer)
             data == self.tristimulus_buffer \o self.compensation_buffer
             r == read_loop(data, file[1], 0, 1)
         IN  GatherUnit(IF r.failed THEN "failed" ELSE self.state,
                        SubSeq(r.data, 1, length),
                        SubSeq(r.data, length + 1, Len(r.data)))

GatherUnit_new(width, height, file) ==
    LET unit == GatherUnit("constructed",
                           from_elem(width * height, Vector3_zero),
                           from_elem(width * height, Vector3_zero))
    IN  GatherUnit_read(unit, file)

(***************************************************************************)
(* The system: App::new and the worker loops of App::start_worker.         *)
(***************************************************************************)
Workers == 1..workers

Init ==
    /\ \E cfg \in Configurations : concurrency = cfg[1] /\ workers = cfg[2]
    /\ now = 0
    /\ task_scheduler = TaskScheduler_new(concurrency, 0)
    /\ task = [w \in 1..workers |-> Sleep]
    /\ panicked = FALSE
    /\ pc = [w \in 1..workers |-> "lock"]
    /\ mutex = 0
    /\ tristimulus_buffer =
          [u \in Elems(task_scheduler.available_plot_units) |-> FALSE]
    /\ img_rx = [w \in 1..workers |-> <<>>]
    /\ images = <<>>
    /\ stop = 0
    /\ stop_rx = [w \in 1..workers |-> 0]
    /\ supervisor = "running"
    /\ image_width = 1
    /\ image_height = 1
    /\ buffer_raw = None
    /\ gather = GatherUnit_new(image_width, image_height, buffer_raw)

\* Time passes.
Tick ==
    /\ now + ClockStep <= MaxTime
    /\ now' = now + ClockStep
    /\ UNCHANGED gather_vars
    /\ UNCHANGED <<concurrency, workers, task_scheduler, task, panicked>>
    /\ UNCHANGED app_vars

\* Later clock reads see the same or a later time.
ClockReads(t) == {u \in {t, t + ClockStep} : u <= MaxTime}

\* The bound on the u32 counter traces_completed.
MaxTraces ==
    LET cfg == CHOOSE c \in Configurations :
                   c[1] = concurrency /\ c[2] = workers
    IN  cfg[3] + ExtraTraces

\* task = task_scheduler.lock().get_new_task(task), one critical section.
\* A panic inside it poisons the mutex: no worker enters it again.
GetNewTask(w) ==
    /\ ~panicked
    /\ task[w].kind = "Trace" => task_scheduler.traces_completed < MaxTraces
    /\ \E time2 \in ClockReads(now) :
          LET r == get_new_task(task_scheduler, task[w], now, time2)
          IN  /\ task_scheduler' = r.self
              /\ task' = IF r.panic THEN task ELSE [task EXCEPT ![w] = r.task]
              /\ panicked' = r.panic
              /\ now' = time2
    /\ UNCHANGED gather_vars
    /\ UNCHANGED <<concurrency, workers>>
    /\ UNCHANGED app_vars

Next ==
    \/ Tick
    \/ \E w \in Workers : GetNewTask(w)

Spec == Init /\ [][Next]_vars

(***************************************************************************)
(* The worker loops that run forever.  Every worker keeps calling          *)
(* get_new_task with the task it was handed and the clock keeps advancing. *)
(* traces_completed only feeds the performance print of                    *)
(* complete_tonemap_task; here it is kept up to the trace budget, so that  *)
(* workers can go on tracing for any length of time between two tonemaps.  *)
(***************************************************************************)
SaturateTraces(self) ==
    [self EXCEPT !.traces_completed = IF @ > MaxTraces THEN MaxTraces ELSE @]

LiveGetNewTask(w) ==
    /\ w \in Workers
    /\ ~panicked
    /\ \E time2 \in ClockReads(now) :
          LET r == get_new_task(task_scheduler, task[w], now, time2)
          IN  /\ task_scheduler' = SaturateTraces(r.self)
              /\ task' = IF r.panic THEN task ELSE [task EXCEPT ![w] = r.task]
              /\ panicked' = r.panic
              /\ now' = time2
    /\ UNCHANGED gather_vars
    /\ UNCHANGED <<concurrency, workers>>
    /\ UNCHANGED app_vars

LiveNext ==
    \/ Tick
    \/ \E w \in Workers : LiveGetNewTask(w)

\* The systems with one core or one worker loop.
LiveConfigurations == {cfg \in Configurations : cfg[1] = 1 \/ cfg[2] = 1}

LiveInit ==
    /\ Init
    /\ \E cfg \in LiveConfigurations : concurrency = cfg[1] /\ workers = cfg[2]

\* The clock advances, and every worker returns from the task it executes
\* and calls get_new_task again.
LiveSpec ==
    /\ LiveInit
    /\ [][LiveNext]_vars
    /\ WF_vars(Tick)
    /\ \A w \in UNION {1..cfg[2] : cfg \in LiveConfigurations} :
          WF_vars(LiveGetNewTask(w))

(***************************************************************************)
(* App: the worker tasks step by step, the supervisor task, the channels   *)
(* and the buffers of the plot units.                                      *)
(***************************************************************************)
\* execute_plot_task: plot_unit.plot(unit.mapped_photons) for every unit
\* adds to the buffer of the plot unit.
execute_plot_task(buffers, plot_unit, units) ==
    IF units = <<>> THEN buffers ELSE [buffers EXCEPT ![plot_unit] = TRUE]

\* An execute_gather_task that accumulates and does not clear.
execute_gather_task_without_clear(buffers, units) == buffers

\* execute_gather_task: gather_unit.accumulate(unit.tristimulus_buffer)
\* and unit.clear() for every unit.
execute_gather_task(buffers, units) ==
    [u \in DOMAIN buffers |-> IF u \in Elems(units) THEN FALSE ELSE buffers[u]]

\* App::new spawns as many workers as cores.
AppInit == Init /\ workers = concurrency

\* A lock() that does not wait for the Mutex.
Lock_without_waiting(w) ==
    /\ pc[w] = "lock"
    /\ ~panicked
    /\ task[w].kind = "Trace"
          => /\ task_scheduler.traces_completed < MaxTraces
             /\ task_scheduler.performance = 0
    /\ mutex' = w
    /\ pc' = [pc EXCEPT ![w] = "get_new_task"]
    /\ UNCHANGED gather_vars
    /\ UNCHANGED <<concurrency, workers, task_scheduler, task, now, panicked,
                   tristimulus_buffer, img_rx, images, stop, stop_rx,
                   supervisor>>

\* task_scheduler.lock(): blocks until the Mutex is free.  The trace
\* budget is not renewed here: a Trace task is not retired any more once the
\* budget is used up or a Tonemap task was retired.
Lock(w) ==
    /\ pc[w] = "lock"
    /\ mutex = 0
    /\ ~panicked
    /\ task[w].kind = "Trace"
          => /\ task_scheduler.traces_completed < MaxTraces
             /\ task_scheduler.performance = 0
    /\ mutex' = w
    /\ pc' = [pc EXCEPT ![w] = "get_new_task"]
    /\ UNCHANGED gather_vars
    /\ UNCHANGED <<concurrency, workers, task_scheduler, task, now, panicked,
                   tristimulus_buffer, img_rx, images, stop, stop_rx,
                   supervisor>>

\* .get_new_task(task), the assignment to task and the drop of the guard
\* at the end of the statement.  A panic leaves the Mutex poisoned.
LockedGetNewTask(w) ==
    /\ pc[w] = "get_new_task"
    /\ \E time2 \in ClockReads(now) :
          LET r == get_new_task(task_scheduler, task[w], now, time2)
          IN  /\ task_scheduler' = r.self
              /\ task' = IF r.panic THEN task ELSE [task EXCEPT ![w] = r.task]
              /\ panicked' = r.panic
              /\ now' = time2
              /\ mutex' = IF r.panic THEN mutex ELSE 0
              /\ pc' = [pc EXCEPT ![w] = IF r.panic THEN "failed" ELSE "execute"]
    /\ UNCHANGED gather_vars
    /\ UNCHANGED <<concurrency, workers, tristimulus_buffer, img_rx, images,
                   stop, stop_rx, supervisor>>

\* The images worker w has sent so far, counted from the channels.
Sent(w) ==
    Cardinality({i \in 1..Len(images) : images[i][1] = w}) + Len(img_rx[w])

\* App::execute_task(&mut task, &scene, &mut owned_img_tx).  img_tx.send
\* fails the task when the receiver has hung up, which it has once the
\* supervisor task has ended.
ExecuteTask(w) ==
    /\ pc[w] = "execute"
    /\ tristimulus_buffer' =
          CASE task[w].kind = "Plot" ->
                  execute_plot_task(tristimulus_buffer, task[w].plot_units[1],
                                    task[w].trace_units)
            [] task[w].kind = "Gather" ->
                  execute_gather_task(tristimulus_buffer, task[w].plot_units)
            [] OTHER -> tristimulus_buffer
    /\ IF task[w].kind = "Tonemap"
       THEN IF supervisor = "running"
            THEN /\ img_rx' = [img_rx EXCEPT ![w] = Append(@, <<w, Sent(w) + 1>>)]
                 /\ pc' = [pc EXCEPT ![w] = "try_recv"]
            ELSE /\ pc' = [pc EXCEPT ![w] = "failed"]
                 /\ UNCHANGED img_rx
       ELSE /\ pc' = [pc EXCEPT ![w] = "try_recv"]
            /\ UNCHANGED img_rx
    /\ UNCHANGED gather_vars
    /\ UNCHANGED <<concurrency, workers, task_scheduler, task, now, panicked,
                   mutex, images, stop, stop_rx, supervisor>>

\* match stop_rx.try_recv() { Ok(()) => break, _ => { } }
TryRecv(w) ==
    /\ pc[w] = "try_recv"
    /\ IF stop_rx[w] > 0
       THEN /\ stop_rx' = [stop_rx EXCEPT ![w] = @ - 1]
            /\ pc' = [pc EXCEPT ![w] = "done"]
       ELSE /\ pc' = [pc EXCEPT ![w] = "lock"]
            /\ UNCHANGED stop_rx
    /\ UNCHANGED gather_vars
    /\ UNCHANGED <<concurrency, workers, task_scheduler, task, now, panicked,
                   mutex, tristimulus_buffer, img_rx, images, stop, supervisor>>

\* A supervisor that routes the newest image of a worker first.
SupervisorRoute_newest_first(w) ==
    /\ supervisor = "running"
    /\ img_rx[w] # <<>>
    /\ images' = Append(images, img_rx[w][Len(img_rx[w])])
    /\ img_rx' = [img_rx EXCEPT ![w] = SubSeq(@, 1, Len(@) - 1)]
    /\ UNCHANGED gather_vars
    /\ UNCHANGED <<concurrency, workers, task_scheduler, task, now, panicked,
                   pc, mutex, tristimulus_buffer, stop, stop_rx, supervisor>>

\* select.wait() returned the handle of worker w:
\* let img = handle.recv(); img_tx.send(img);
SupervisorRoute(w) ==
    /\ supervisor = "running"
    /\ img_rx[w] # <<>>
    /\ images' = Append(images, Head(img_rx[w]))
    /\ img_rx' = [img_rx EXCEPT ![w] = Tail(@)]
    /\ UNCHANGED gather_vars
    /\ UNCHANGED <<concurrency, workers, task_scheduler, task, now, panicked,
                   pc, mutex, tristimulus_buffer, stop, stop_rx, supervisor>>

\* select.wait() returned the stop handle: the signal is broadcast to all
\* workers and the supervising loop ends, which drops the receivers of the
\* workers' image channels with the images still in them.  The signal
\* itself is not received from App.stop.
SupervisorStop ==
    /\ supervisor = "running"
    /\ stop > 0
    /\ stop_rx' = [w \in Workers |-> stop_rx[w] + 1]
    /\ supervisor' = "done"
    /\ img_rx' = [w \in Workers |-> <<>>]
    /\ UNCHANGED gather_vars
    /\ UNCHANGED <<concurrency, workers, task_scheduler, task, now, panicked,
                   pc, mutex, tristimulus_buffer, images, stop>>

\* The owner of the App sends the stop signal: app.stop.send(()).
SendStop ==
    /\ supervisor = "running"
    /\ stop = 0
    /\ stop' = 1
    /\ UNCHANGED gather_vars
    /\ UNCHANGED <<concurrency, workers, task_scheduler, task, now, panicked,
                   pc, mutex, tristimulus_buffer, img_rx, images, stop_rx,
                   supervisor>>

AppNext ==
    \/ Tick
    \/ \E w \in Workers : Lock(w)
    \/ \E w \in Workers : LockedGetNewTask(w)
    \/ \E w \in Workers : ExecuteTask(w)
    \/ \E w \in Workers : TryRecv(w)
    \/ \E w \in Workers : SupervisorRoute(w)
    \/ SupervisorStop
    \/ SendStop

AppSpec == AppInit /\ [][AppNext]_vars

(***************************************************************************)
(* Where the units are.                                                    *)
(***************************************************************************)
\* The ids assigned at construction.
TraceIds == Elems(TaskScheduler_new(concurrency, 0).available_trace_units)

PlotIds == Elems(TaskScheduler_new(concurrency, 0).available_plot_units)

\* How often x occurs in the sequence q.
Count(x, q) == Cardinality({i \in 1..Len(q) : q[i] = x})

RECURSIVE SumOver(_, _)
SumOver(f, n) == IF n = 0 THEN 0 ELSE f[n] + SumOver(f, n - 1)

\* The number of places a unit is in: pools and slots, and in-flight tasks.
TraceCopies(u) ==
    Count(u, task_scheduler.available_trace_units)
    + Count(u, task_scheduler.done_trace_units)
    + SumOver([w \in 1..workers |-> Count(u, task[w].trace_units)], workers)

PlotCopies(u) ==
    Count(u, task_scheduler.available_plot_units)
    + Count(u, task_scheduler.done_plot_units)
    + SumOver([w \in 1..workers |-> Count(u, task[w].plot_units)], workers)

GatherCopies(u) ==
    Count(u, task_scheduler.gather_unit)
    + SumOver([w \in 1..workers |-> Count(u, task[w].gather_unit)], workers)

TonemapCopies(u) ==
    Count(u, task_scheduler.tonemap_unit)
    + SumOver([w \in 1..workers |-> Count(u, task[w].tonemap_unit)], workers)

\* Every id that is anywhere, per kind of unit.
TraceIdsPresent ==
    Elems(task_scheduler.available_trace_units)
    \cup Elems(task_scheduler.done_trace_units)
    \cup UNION {Elems(task[w].trace_units) : w \in Workers}

PlotIdsPresent ==
    Elems(task_scheduler.available_plot_units)
    \cup Elems(task_scheduler.done_plot_units)
    \cup UNION {Elems(task[w].plot_units) : w \in Workers}

GatherIdsPresent ==
    Elems(task_scheduler.gather_unit)
    \cup UNION {Elems(task[w].gather_unit) : w \in Workers}

TonemapIdsPresent ==
    Elems(task_scheduler.tonemap_unit)
    \cup UNION {Elems(task[w].tonemap_unit) : w \in Workers}

\* The trace units and the plot units held by in-flight tasks.
InFlightTrace == SumOver([w \in 1..workers |-> Len(task[w].trace_units)], workers)

InFlightPlot == SumOver([w \in 1..workers |-> Len(task[w].plot_units)], workers)

\* The kinds of the in-flight tasks that hold the gather / the tonemap unit.
HoldsGather(w) == is_some(task[w].gather_unit)

HoldsTonemap(w) == is_some(task[w].tonemap_unit)

(***************************************************************************)
(* C1: In every reachable state every trace unit, every plot unit, the     *)
(* gather unit and the tonemap unit is in exactly one place (one pool or   *)
(* slot of the scheduler, or one in-flight Task, once), and the ids over   *)
(* pools plus in-flight Tasks are exactly the ids assigned at construction.*)
(***************************************************************************)
C1_ExactlyOnePlace ==
    /\ \A u \in TraceIds : TraceCopies(u) = 1
    /\ \A u \in PlotIds : PlotCopies(u) = 1
    /\ GatherCopies(GatherId) = 1
    /\ TonemapCopies(TonemapId) = 1
    /\ TraceIdsPresent = TraceIds
    /\ PlotIdsPresent = PlotIds
    /\ GatherIdsPresent = {GatherId}
    /\ TonemapIdsPresent = {TonemapId}

\* Two workers hold tasks at once, one of them a Plot task with a batch of
\* trace units, while both trace queues hold units too.
C1_Witness ==
    /\ \E w1, w2 \in Workers :
          /\ w1 # w2
          /\ task[w1].kind = "Plot" /\ Len(task[w1].trace_units) >= 2
          /\ task[w2].kind = "Trace"
    /\ ~is_empty(task_scheduler.done_trace_units)
    /\ ~is_empty(task_scheduler.available_trace_units)

(***************************************************************************)
(* C2: For a scheduler built with concurrency C, in every reachable state  *)
(* |available_trace| + |done_trace| + trace units in flight = 3*C and      *)
(* |available_plot| + |done_plot| + plot units in flight = max(1, C/2).    *)
(***************************************************************************)
C2_PoolConservation ==
    /\ Len(task_scheduler.available_trace_units)
       + Len(task_scheduler.done_trace_units) + InFlightTrace
       = 3 * concurrency
    /\ Len(task_scheduler.available_plot_units)
       + Len(task_scheduler.done_plot_units) + InFlightPlot
       = (IF concurrency \div 2 >= 1 THEN concurrency \div 2 ELSE 1)

\* A Gather task that holds both plot units of a scheduler with two of
\* them, after trace units went through Plot tasks.
C2_Witness ==
    /\ concurrency = 4
    /\ \E w \in Workers : task[w].kind = "Gather" /\ Len(task[w].plot_units) = 2
    /\ InFlightPlot = 2
    /\ ~is_empty(task_scheduler.done_trace_units)

(***************************************************************************)
(* C3: The gather slot is populated exactly when no in-flight task holds   *)
(* the gather unit, and only Gather and Tonemap tasks hold it; the tonemap *)
(* slot is populated exactly when no in-flight task holds the tonemap      *)
(* unit, and only Tonemap tasks hold it.                                   *)
(***************************************************************************)
C3_SlotsExclusive ==
    /\ is_some(task_scheduler.gather_unit)
          <=> ~(\E w \in Workers : task[w].kind \in {"Gather", "Tonemap"})
    /\ is_some(task_scheduler.tonemap_unit)
          <=> ~(\E w \in Workers : task[w].kind = "Tonemap")
    /\ \A w \in Workers :
          /\ HoldsGather(w) <=> task[w].kind \in {"Gather", "Tonemap"}
          /\ HoldsTonemap(w) <=> task[w].kind = "Tonemap"

\* Both slots are populated again after a Tonemap task was retired.
C3_Witness ==
    /\ task_scheduler.performance >= 1
    /\ is_some(task_scheduler.gather_unit)
    /\ is_some(task_scheduler.tonemap_unit)
    /\ \E w \in Workers : task[w].kind = "Trace"

(***************************************************************************)
(* Calls of get_new_task.                                                  *)
(***************************************************************************)
\* The scheduler in which worker w's task was retired (line 132).
Retired(w) == complete_task(task_scheduler, task[w], now)

\* What get_new_task returns to worker w when it calls now and the clock
\* read of line 136 is time2.
Call(w, time2) == get_new_task(task_scheduler, task[w], now, time2)

(***************************************************************************)
(* C4: get_new_task never fails: no unwrap() was reached with an empty     *)
(* queue or slot, and from every reachable state the call of every worker, *)
(* completing the task it was handed, reaches no such unwrap() and returns *)
(* one of Sleep, Trace, Plot, Gather, Tonemap.                             *)
(***************************************************************************)
C4_NeverFails ==
    /\ ~panicked
    /\ \A w \in Workers : \A time2 \in ClockReads(now) :
          /\ ~Call(w, time2).panic
          /\ Call(w, time2).task.kind \in TaskKinds

\* A worker was sent to sleep while more than half of the trace units are
\* done and the plot unit is away: the backpressure rule did not apply.
C4_Witness ==
    /\ Len(task_scheduler.done_trace_units)
          > task_scheduler.number_of_trace_units \div 2
    /\ is_empty(task_scheduler.available_plot_units)
    /\ \E w \in Workers : task[w].kind = "Sleep"
    /\ \E w \in Workers : task[w].kind = "Plot"

(***************************************************************************)
(* What can be built from the pools of a scheduler.                        *)
(***************************************************************************)
CanTrace(self) == ~is_empty(self.available_trace_units)

CanPlot(self) ==
    ~is_empty(self.available_plot_units) /\ ~is_empty(self.done_trace_units)

CanGather(self) ==
    is_some(self.gather_unit) /\ ~is_empty(self.done_plot_units)

Actionable(self) == CanTrace(self) \/ CanPlot(self) \/ CanGather(self)

\* A call that completes Sleep would be answered with Sleep now.
Exhausted == decide(task_scheduler, now).task.kind = "Sleep"

(***************************************************************************)
(* C5: Sleep is returned only when nothing else is actionable: whenever a  *)
(* call returns Sleep (the first Sleep of a worker, or the Sleep after a   *)
(* Sleep), no Trace, Plot or Gather task can be built from the pools in    *)
(* which the completed task was retired.                                   *)
(***************************************************************************)
C5_SleepOnlyWhenIdle ==
    \A w \in Workers : \A time2 \in ClockReads(now) :
        Call(w, time2).task.kind = "Sleep" => ~Actionable(Retired(w))

\* A worker holds Sleep and its next call is answered with Sleep again,
\* while trace units wait to be plotted and the plot unit is away.
C5_Witness ==
    \E w \in Workers :
        /\ task[w].kind = "Sleep"
        /\ Call(w, now).task.kind = "Sleep"
        /\ ~is_empty(task_scheduler.done_trace_units)
        /\ is_some(task_scheduler.gather_unit)
        /\ \E v \in Workers : task[v].kind = "Trace"

(***************************************************************************)
(* C6 as stated: in a state where get_new_task returns Sleep, the call     *)
(* that retires any in-flight Trace, Plot, Gather or Tonemap task returns  *)
(* a task other than Sleep.                                                *)
(***************************************************************************)
C6_AnyRetireRecovers ==
    \A w \in Workers : \A time2 \in ClockReads(now) :
        (/\ Exhausted
         /\ \E v \in Workers : task[v].kind = "Sleep"
         /\ task[w].kind # "Sleep")
        => Call(w, time2).task.kind # "Sleep"

(***************************************************************************)
(* C6 as amended: the call that retires an in-flight Plot task returns a   *)
(* task other than Sleep, in particular when the pools are exhausted; and  *)
(* when every worker holds Sleep, the next call of each of them returns a  *)
(* task other than Sleep, so the workers never sleep forever.              *)
(***************************************************************************)
C6_PlotRetireRecovers ==
    /\ \A w \in Workers : \A time2 \in ClockReads(now) :
          task[w].kind = "Plot" => Call(w, time2).task.kind # "Sleep"
    /\ (\A w \in Workers : task[w].kind = "Sleep")
          => \A w \in Workers : \A time2 \in ClockReads(now) :
                Call(w, time2).task.kind # "Sleep"

\* The pools are exhausted, a worker sleeps, and a Plot task is in flight
\* whose retirement ends the exhaustion.
C6_Witness ==
    /\ Exhausted
    /\ \E w \in Workers : task[w].kind = "Sleep"
    /\ \E w \in Workers :
          task[w].kind = "Plot" /\ Call(w, now).task.kind = "Trace"

(***************************************************************************)
(* C7: get_new_task retires the completed task before it evaluates the    *)
(* rules, so the units the completed task returns are eligible in the same *)
(* call: a call that completes Plot(p, ts) on an empty available-trace     *)
(* queue never sleeps and, when it returns Trace, returns the first unit   *)
(* of ts; a call that completes Gather(g, ps) returns Tonemap (on g) when  *)
(* the periodic check is due, and otherwise, when no other plot unit is    *)
(* available and more than half of the trace units are done, a Plot task   *)
(* on the first unit of ps.                                                *)
(***************************************************************************)
C7_RetireBeforeRules ==
    \A w \in Workers : \A time2 \in ClockReads(now) :
        LET r == Call(w, time2)
            due == time2 - task_scheduler.last_tonemap_time > tonemap_interval
        IN  /\ (task[w].kind = "Plot"
                /\ is_empty(task_scheduler.available_trace_units))
               => /\ r.task.kind # "Sleep"
                  /\ r.task.kind = "Trace"
                        => r.task.trace_units = <<task[w].trace_units[1]>>
            /\ (task[w].kind = "Gather" /\ due)
               => /\ r.task.kind = "Tonemap"
                  /\ r.task.gather_unit = task[w].gather_unit
            /\ (/\ task[w].kind = "Gather" /\ ~due
                /\ is_empty(task_scheduler.available_plot_units)
                /\ Len(task_scheduler.done_trace_units)
                      > task_scheduler.number_of_trace_units \div 2)
               => /\ r.task.kind = "Plot"
                  /\ r.task.plot_units = <<task[w].plot_units[1]>>

\* A Plot task is in flight while no trace unit is available, and the call
\* that retires it returns a Trace task on the first unit of its batch.
C7_Witness ==
    \E w \in Workers :
        /\ task[w].kind = "Plot"
        /\ is_empty(task_scheduler.available_trace_units)
        /\ Call(w, now).task = Trace(task[w].trace_units[1])

(***************************************************************************)
(* C8: The variant get_new_task returns is the first match of the rules,   *)
(* tried in priority order on the scheduler in which the completed task    *)
(* was retired: periodic Tonemap, periodic Gather, Plot if more than       *)
(* floor(N/2) trace units are done and a plot unit is available, Trace if  *)
(* a trace unit is available, Plot if a plot unit is available and a trace *)
(* unit is done, Gather if the gather slot is populated and a plot unit is *)
(* done, else Sleep.                                                       *)
(***************************************************************************)
\* The rules as <<condition, variant>>, in priority order.
Rules(self, time) ==
    LET due == time - self.last_tonemap_time > tonemap_interval
    IN  << <<due /\ self.image_changed /\ is_some(self.gather_unit)
                 /\ is_some(self.tonemap_unit), "Tonemap">>,
           <<due /\ ~self.image_changed /\ CanGather(self), "Gather">>,
           <<Len(self.done_trace_units) > self.number_of_trace_units \div 2
                 /\ ~is_empty(self.available_plot_units), "Plot">>,
           <<CanTrace(self), "Trace">>,
           <<CanPlot(self), "Plot">>,
           <<CanGather(self), "Gather">>,
           <<TRUE, "Sleep">> >>

FirstMatch(rules) ==
    LET i == CHOOSE i \in 1..Len(rules) :
                 rules[i][1] /\ \A j \in 1..(i - 1) : ~rules[j][1]
    IN  rules[i][2]

C8_FirstMatchingRule ==
    \A w \in Workers : \A time2 \in ClockReads(now) :
        Call(w, time2).task.kind = FirstMatch(Rules(Retired(w), time2))

\* A call returns Plot by the backpressure rule although trace units are
\* available.
C8_Witness ==
    \E w \in Workers :
        /\ Call(w, now).task.kind = "Plot"
        /\ CanTrace(Retired(w))
        /\ Len(Call(w, now).task.trace_units) >= 2

(***************************************************************************)
(* C9: get_new_task returns a Tonemap task if and only if, in the          *)
(* scheduler in which the completed task was retired, the time since       *)
(* last_tonemap_time exceeds the tonemap interval, image_changed is true   *)
(* and both the gather slot and the tonemap slot are populated; returning  *)
(* it empties both slots.                                                  *)
(***************************************************************************)
C9_TonemapIff ==
    \A w \in Workers : \A time2 \in ClockReads(now) :
        LET self == Retired(w)
            r == Call(w, time2)
        IN  /\ r.task.kind = "Tonemap"
               <=> /\ time2 - self.last_tonemap_time > tonemap_interval
                   /\ self.image_changed
                   /\ is_some(self.gather_unit)
                   /\ is_some(self.tonemap_unit)
            /\ r.task.kind = "Tonemap"
               => /\ r.self.gather_unit = None
                  /\ r.self.tonemap_unit = None
                  /\ r.task.gather_unit = self.gather_unit
                  /\ r.task.tonemap_unit = self.tonemap_unit

\* The image has changed and both slots are populated exactly one interval
\* after the last tonemap: no Tonemap task yet, but one clock step later.
C9_Witness ==
    \E w \in Workers :
        /\ now - task_scheduler.last_tonemap_time = tonemap_interval
        /\ now + ClockStep <= MaxTime
        /\ Retired(w).image_changed
        /\ Call(w, now).task.kind # "Tonemap"
        /\ Call(w, now + ClockStep).task.kind = "Tonemap"

(***************************************************************************)
(* C10: Tonemapping is rate-limited: at most one Tonemap task is in flight *)
(* at any time; last_tonemap_time is the time of construction until a      *)
(* Tonemap task is retired, it changes only when a Tonemap task is         *)
(* retired, to the time of that retirement; and a Tonemap task is emitted  *)
(* only more than one tonemap interval after it.                           *)
(***************************************************************************)
TonemapsInFlight == {w \in Workers : task[w].kind = "Tonemap"}

C10_RateLimited ==
    /\ [](/\ Cardinality(TonemapsInFlight) <= 1
          /\ task_scheduler.performance = 0
                => task_scheduler.last_tonemap_time = 0)
    /\ [][/\ \A w \in Workers :
                (task[w].kind = "Tonemap" /\ task'[w] # task[w])
                => /\ task_scheduler'.last_tonemap_time = now
                   /\ task_scheduler'.performance
                         = task_scheduler.performance + 1
          /\ (\A w \in Workers : task[w].kind = "Tonemap" => task'[w] = task[w])
                => /\ task_scheduler'.last_tonemap_time
                         = task_scheduler.last_tonemap_time
                   /\ task_scheduler'.performance = task_scheduler.performance
          /\ \A w \in Workers :
                (task'[w].kind = "Tonemap" /\ task[w].kind # "Tonemap")
                => now' - task_scheduler.last_tonemap_time > tonemap_interval
      ]_vars

\* A second Tonemap task is in flight, emitted after the first was retired.
C10_Witness ==
    /\ task_scheduler.performance = 1
    /\ task_scheduler.last_tonemap_time > 0
    /\ \E w \in Workers : task[w].kind = "Tonemap"

(***************************************************************************)
(* C11: At least one Tonemap task is eventually produced: in every         *)
(* execution in which each worker eventually returns the task it was       *)
(* handed and the clock keeps advancing past the tonemap interval,         *)
(* get_new_task eventually returns a Tonemap task.                         *)
(***************************************************************************)
C11_EventuallyTonemap == <>(\E w \in Workers : task[w].kind = "Tonemap")

\* The first Tonemap task is in flight, more than one interval after the
\* construction, and the image it maps was gathered.
C11_Witness ==
    /\ task_scheduler.performance = 0
    /\ task_scheduler.image_changed
    /\ now > tonemap_interval
    /\ \E w \in Workers : task[w].kind = "Tonemap"

(***************************************************************************)
(* C12: Every Plot task is built from a done-trace queue of d >= 1 units   *)
(* and carries exactly max(1, floor(d/2)) trace units, the first ones of   *)
(* the queue in queue order, plus the front unit of the available-plot     *)
(* queue; the other d - max(1, floor(d/2)) units stay in the done-trace    *)
(* queue in their order.                                                   *)
(***************************************************************************)
C12_PlotBatch ==
    \A w \in Workers : \A time2 \in ClockReads(now) :
        LET self == Retired(w)
            r == Call(w, time2)
            done == self.done_trace_units
            d == Len(done)
            n == IF d \div 2 >= 1 THEN d \div 2 ELSE 1
        IN  r.task.kind = "Plot"
            => /\ d >= 1
               /\ Len(r.task.trace_units) = n
               /\ \A i \in 1..n : r.task.trace_units[i] = done[i]
               /\ r.task.plot_units = <<self.available_plot_units[1]>>
               /\ r.self.available_plot_units
                     = SubSeq(self.available_plot_units, 2,
                              Len(self.available_plot_units))
               /\ Len(r.self.done_trace_units) = d - n
               /\ \A i \in 1..(d - n) : r.self.done_trace_units[i] = done[n + i]

\* A Plot task is built from an odd number of done trace units, at least
\* three: it carries fewer than half of them and the others stay queued.
C12_Witness ==
    \E w \in Workers :
        /\ Call(w, now).task.kind = "Plot"
        /\ Len(Retired(w).done_trace_units) >= 3
        /\ Len(Retired(w).done_trace_units) % 2 = 1
        /\ Len(Call(w, now).self.done_trace_units)
              > Len(Call(w, now).task.trace_units)

(***************************************************************************)
(* C13: Every Gather task, from the periodic rule or from the rule that    *)
(* drains the plot backlog, carries all plot units of the done-plot queue  *)
(* in queue order and leaves the done-plot queue and the gather slot       *)
(* empty.                                                                  *)
(***************************************************************************)
C13_GatherDrainsAll ==
    \A w \in Workers : \A time2 \in ClockReads(now) :
        LET self == Retired(w)
            r == Call(w, time2)
        IN  r.task.kind = "Gather"
            => /\ r.task.plot_units = self.done_plot_units
               /\ Len(r.task.plot_units) >= 1
               /\ r.self.done_plot_units = <<>>
               /\ r.self.gather_unit = None
               /\ r.task.gather_unit = self.gather_unit

\* The periodic rule emits a Gather task on two done plot units while a
\* trace unit is available.
C13_Witness ==
    \E w \in Workers : \E time2 \in ClockReads(now) :
        /\ Call(w, time2).task.kind = "Gather"
        /\ Len(Retired(w).done_plot_units) = 2
        /\ time2 - Retired(w).last_tonemap_time > tonemap_interval
        /\ CanTrace(Retired(w))

(***************************************************************************)
(* C14: The done queues are FIFO.  In every step a done queue loses units  *)
(* only at its front, exactly those handed out in the Plot (Gather) task   *)
(* the step returns, and gains units only at its back, exactly the unit    *)
(* of the Trace (Plot) task the step retires; so a unit retired earlier is *)
(* handed out in the same task as, or in an earlier task than, a unit      *)
(* retired later.                                                          *)
(***************************************************************************)
C14_DoneQueuesFifo ==
    [][LET callers == {w \in Workers : task'[w] # task[w]}
       IN  /\ callers = {}
              => /\ task_scheduler'.done_trace_units
                       = task_scheduler.done_trace_units
                 /\ task_scheduler'.done_plot_units
                       = task_scheduler.done_plot_units
           /\ \A w \in callers :
                 /\ task_scheduler.done_trace_units
                       \o (IF task[w].kind = "Trace"
                           THEN task[w].trace_units ELSE <<>>)
                    = (IF task'[w].kind = "Plot"
                       THEN task'[w].trace_units ELSE <<>>)
                       \o task_scheduler'.done_trace_units
                 /\ task_scheduler.done_plot_units
                       \o (IF task[w].kind = "Plot"
                           THEN task[w].plot_units ELSE <<>>)
                    = (IF task'[w].kind = "Gather"
                       THEN task'[w].plot_units ELSE <<>>)
                       \o task_scheduler'.done_plot_units
      ]_vars

\* A worker is about to retire a Trace task behind at least three done
\* trace units and is handed a Plot task on the oldest of them, without
\* the unit it just retired.
C14_Witness ==
    \E w \in Workers :
        /\ task[w].kind = "Trace"
        /\ Len(task_scheduler.done_trace_units) >= 3
        /\ Call(w, now).task.kind = "Plot"
        /\ Call(w, now).task.trace_units[1] = task_scheduler.done_trace_units[1]
        /\ task[w].trace_units[1] \notin Elems(Call(w, now).task.trace_units)

(***************************************************************************)
(* C15: With N workers sharing one scheduler, at most one worker is inside *)
(* get_new_task at any time, and it is the holder of the Mutex; the pools  *)
(* and the tasks change only in a step of the worker inside get_new_task;  *)
(* and no worker holds the Mutex while it executes its task or polls the   *)
(* stop channel: the lock is released before execute_task starts.          *)
(***************************************************************************)
InsideGetNewTask == {w \in Workers : pc[w] = "get_new_task"}

C16_AvailablePlotUnitsCleared ==
    /\ \A u \in Elems(task_scheduler.available_plot_units) :
          ~tristimulus_buffer[u]
    /\ \A w \in Workers :
          /\ (task[w].kind = "Plot" /\ pc[w] = "execute")
                => ~tristimulus_buffer[task[w].plot_units[1]]
          /\ (task[w].kind = "Gather" /\ pc[w] # "execute")
                => \A u \in Elems(task[w].plot_units) : ~tristimulus_buffer[u]

\* A plot unit that was plotted on and gathered is available again, while
\* a worker executes a Trace task.
C16_Witness ==
    /\ task_scheduler.image_changed
    /\ ~is_empty(task_scheduler.available_plot_units)
    /\ \A u \in Elems(task_scheduler.done_plot_units) : tristimulus_buffer[u]
    /\ \E w \in Workers : task[w].kind = "Trace" /\ pc[w] = "execute"

(***************************************************************************)
(* C17: TaskScheduler::new(C, W, H) yields the initial state: the          *)
(* available-trace queue holds the 3*C trace units with ids 0 .. 3C-1 in   *)
(* increasing order, the available-plot queue the max(1, floor(C/2)) plot  *)
(* units with ids 0, 1, .. in increasing order, both done queues are       *)
(* empty, both slots are populated, image_changed is false and             *)
(* traces_completed is 0.                                                  *)
(***************************************************************************)
C17_InitialState ==
    LET ts == TaskScheduler_new(concurrency, now)
        plots == IF concurrency \div 2 >= 1 THEN concurrency \div 2 ELSE 1
    IN  /\ Len(ts.available_trace_units) = 3 * concurrency
        /\ \A i \in 1..(3 * concurrency) : ts.available_trace_units[i] = i - 1
        /\ Len(ts.available_plot_units) = plots
        /\ \A i \in 1..plots : ts.available_plot_units[i] = i - 1
        /\ ts.done_trace_units = <<>>
        /\ ts.done_plot_units = <<>>
        /\ ts.gather_unit # None
        /\ ts.tonemap_unit # None
        /\ ts.image_changed = FALSE
        /\ ts.traces_completed = 0
        /\ ts.number_of_trace_units = 3 * concurrency
        /\ ts.last_tonemap_time = now

\* The scheduler of four cores right after construction: twelve trace
\* units and two plot units, and no worker was handed a task yet.
C17_Witness ==
    /\ concurrency = 4
    /\ task_scheduler = TaskScheduler_new(concurrency, 0)
    /\ Len(task_scheduler.available_trace_units) = 12
    /\ Len(task_scheduler.available_plot_units) = 2
    /\ \A w \in Workers : task[w].kind = "Sleep"

(***************************************************************************)
(* C18 as stated: |available_trace| + |done_trace| is constant and equal   *)
(* to the trace pool size, and |available_plot| + |done_plot| is constant  *)
(* and equal to the plot pool size.                                        *)
(***************************************************************************)
C18_AvailablePlusDoneConstant ==
    /\ Len(task_scheduler.available_trace_units)
       + Len(task_scheduler.done_trace_units)
       = task_scheduler.number_of_trace_units
    /\ Len(task_scheduler.available_plot_units)
       + Len(task_scheduler.done_plot_units)
       = Cardinality(PlotIds)

(***************************************************************************)
(* C18 as amended: |available| + |done| of a kind is the pool size of the  *)
(* kind less the units of the kind held by in-flight tasks; it is at most  *)
(* the pool size and equal to it exactly when no in-flight task holds a    *)
(* unit of the kind.                                                       *)
(***************************************************************************)
C18_AvailablePlusDoneLessInFlight ==
    LET traces == Len(task_scheduler.available_trace_units)
                  + Len(task_scheduler.done_trace_units)
        plots == Len(task_scheduler.available_plot_units)
                 + Len(task_scheduler.done_plot_units)
    IN  /\ traces = task_scheduler.number_of_trace_units - InFlightTrace
        /\ plots = Cardinality(PlotIds) - InFlightPlot
        /\ traces <= task_scheduler.number_of_trace_units
        /\ plots <= Cardinality(PlotIds)
        /\ traces = task_scheduler.number_of_trace_units
              <=> \A w \in Workers : task[w].kind \notin {"Trace", "Plot"}
        /\ plots = Cardinality(PlotIds)
              <=> \A w \in Workers : task[w].kind \notin {"Plot", "Gather"}

\* Every plot unit and some trace units are held by tasks in flight, after
\* a Gather task returned plot units to the available queue before.
C18_Witness ==
    /\ task_scheduler.image_changed
    /\ InFlightPlot = Cardinality(PlotIds)
    /\ InFlightTrace >= 2
    /\ Len(task_scheduler.available_trace_units)
       + Len(task_scheduler.done_trace_units)
       < task_scheduler.number_of_trace_units

(***************************************************************************)
(* C19: Exactly one image is produced per completed Tonemap task and none  *)
(* by any other task: a worker sends one image on its channel in the step  *)
(* that executes a Tonemap task and in no other step; the supervisor       *)
(* forwards the image it receives to the consumer channel; and the images  *)
(* of one worker reach the consumer in the order they were produced.       *)
(***************************************************************************)
\* The images of worker w in the sequence q.
From(w, q) == SelectSeq(q, LAMBDA img : img[1] = w)

\* The workers whose task was executed and is not retired yet.
Executed(kind) ==
    {w \in Workers :
        task[w].kind = kind /\ pc[w] \in {"try_recv", "lock", "get_new_task", "done"}}

C19_OneImagePerTonemap ==
    /\ [](/\ supervisor = "running"
                => Len(images)
                   + SumOver([w \in 1..workers |-> Len(img_rx[w])], workers)
                   = task_scheduler.performance
                     + Cardinality(Executed("Tonemap"))
          /\ \A w \in Workers :
                LET mine == From(w, images) \o img_rx[w]
                IN  \A i \in 1..Len(mine) : mine[i] = <<w, i>>)
    /\ [][/\ \A w \in Workers :
                Len(img_rx'[w]) > Len(img_rx[w])
                <=> /\ pc[w] = "execute" /\ pc'[w] = "try_recv"
                    /\ task[w].kind = "Tonemap"
          /\ \A w \in Workers :
                Len(img_rx'[w]) > Len(img_rx[w])
                => /\ img_rx'[w] = Append(img_rx[w], <<w, Sent(w) + 1>>)
                   /\ images' = images
          /\ images' # images
                => \E w \in Workers :
                      /\ img_rx[w] # <<>>
                      /\ images' = Append(images, Head(img_rx[w]))
                      /\ img_rx' = [img_rx EXCEPT ![w] = Tail(@)]
      ]_vars

\* The consumer channel holds the first image of a worker while the
\* second image of that worker waits in the worker's channel.
C19_Witness ==
    \E w \in Workers :
        /\ From(w, images) = << <<w, 1>> >>
        /\ img_rx[w] = << <<w, 2>> >>
        /\ task_scheduler.performance >= 1

(***************************************************************************)
(* C20: Shutdown is graceful: once the supervisor received the stop        *)
(* signal, every worker was sent it; a worker leaves its loop only by      *)
(* observing the signal between two iterations, after it finished the task *)
(* it was executing; no worker's task fails.                               *)
(***************************************************************************)
C20_GracefulShutdown ==
    \A w \in Workers :
        /\ supervisor = "done" => (stop_rx[w] = 1 \/ pc[w] = "done")
        /\ pc[w] = "done" => (supervisor = "done" /\ stop_rx[w] = 0)
        /\ pc[w] \in {"lock", "get_new_task", "execute", "try_recv", "done"}

(***************************************************************************)
(* The construction of the gather unit on its own: GatherUnit::new applied *)
(* to every canvas up to MaxWidth x MaxHeight and to every buffer.raw that *)
(* is absent or holds up to one Vector3 more than the two buffers, filled  *)
(* with one byte value.  The scheduler's variables are a frame here.       *)
(***************************************************************************)
\* The files of at most `length` bytes.
Files(length) ==
    {None} \cup {Some([i \in 1..n |-> b]) : n \in 0..length, b \in Bytes}

\* The bytes save() writes for a canvas of this size.
SnapshotLength(width, height) == 2 * width * height * Vector3Bytes

GatherInit ==
    /\ concurrency = 1
    /\ workers = 1
    /\ now = 0
    /\ task_scheduler = TaskScheduler_new(concurrency, 0)
    /\ task = [w \in 1..workers |-> Sleep]
    /\ panicked = FALSE
    /\ pc = [w \in 1..workers |-> "lock"]
    /\ mutex = 0
    /\ tristimulus_buffer =
          [u \in Elems(task_scheduler.available_plot_units) |-> FALSE]
    /\ img_rx = [w \in 1..workers |-> <<>>]
    /\ images = <<>>
    /\ stop = 0
    /\ stop_rx = [w \in 1..workers |-> 0]
    /\ supervisor = "running"
    /\ image_width \in 1..MaxWidth
    /\ image_height \in 1..MaxHeight
    /\ buffer_raw \in Files(SnapshotLength(image_width, image_height)
                               + Vector3Bytes)
    /\ gather = GatherUnit("new", <<>>, <<>>)

\* GatherUnit::new(width, height) is called.
GatherUnitNew ==
    /\ gather.state = "new"
    /\ gather' = GatherUnit_new(image_width, image_height, buffer_raw)
    /\ UNCHANGED <<image_width, image_height, buffer_raw>>
    /\ UNCHANGED <<concurrency, workers, task_scheduler, task, now, panicked>>
    /\ UNCHANGED app_vars

GatherNext == GatherUnitNew

GatherSpec == GatherInit /\ [][GatherNext]_vars

\* Both buffers of the unit are all zero.
AllZero(self) ==
    \A i \in 1..Len(self.tristimulus_buffer) :
        /\ self.tristimulus_buffer[i] = Vector3_zero
        /\ self.compensation_buffer[i] = Vector3_zero

(***************************************************************************)
(* C21: Constructing a GatherUnit never aborts because of the snapshot     *)
(* file: when buffer.raw is absent or shorter than 2 * width * height * 12 *)
(* bytes, construction completes and both buffers start from all zeros.    *)
(***************************************************************************)
C21_SnapshotTolerated ==
    (/\ gather.state # "new"
     /\ \/ buffer_raw = None
        \/ Len(buffer_raw[1]) < SnapshotLength(image_width, image_height))
    => /\ gather.state = "constructed"
       /\ Len(gather.tristimulus_buffer) = image_width * image_height
       /\ Len(gather.compensation_buffer) = image_width * image_height
       /\ AllZero(gather)

(***************************************************************************)
(* C22: image_changed is true exactly when a Gather task was retired since *)
(* the last Tonemap task was retired, or since construction: it is false   *)
(* after construction, the step that retires a Gather task sets it, the    *)
(* step that retires a Tonemap task clears it, and no other step changes   *)
(* it.                                                                     *)
(***************************************************************************)
\* The workers whose task of the given kind is retired in this step.
Retiring(kind) ==
    {w \in Workers : task[w].kind = kind /\ task'[w] # task[w]}

C22_ImageChanged ==
    /\ (task_scheduler = TaskScheduler_new(concurrency, 0)
           => ~task_scheduler.image_changed)
    /\ [][task_scheduler'.image_changed
             = (IF Retiring("Gather") # {} THEN TRUE
                ELSE IF Retiring("Tonemap") # {} THEN FALSE
                ELSE task_scheduler.image_changed)
         ]_vars

\* A Tonemap task was retired before and a Gather task was retired after
\* that: the image has changed again.
C22_Witness ==
    /\ task_scheduler.performance >= 1
    /\ task_scheduler.image_changed
    /\ is_some(task_scheduler.gather_unit)

(***************************************************************************)
(* C23: When the tonemap interval has elapsed, image_changed is false, the *)
(* gather slot is populated and a plot unit is done, get_new_task returns  *)
(* a Gather task however many trace and plot units are available; when    *)
(* the interval has elapsed and image_changed is true but the gather or    *)
(* the tonemap slot is empty, the periodic rules emit nothing and the      *)
(* ordinary rules decide.                                                  *)
(***************************************************************************)
C23_PeriodicGather ==
    \A w \in Workers : \A time2 \in ClockReads(now) :
        LET self == Retired(w)
            r == Call(w, time2)
            due == time2 - self.last_tonemap_time > tonemap_interval
            rules == Rules(self, time2)
        IN  /\ (due /\ ~self.image_changed /\ is_some(self.gather_unit)
                    /\ Len(self.done_plot_units) >= 1)
               => r.task.kind = "Gather"
            /\ (due /\ self.image_changed
                    /\ (self.gather_unit = None \/ self.tonemap_unit = None))
               => /\ r.task.kind = FirstMatch(SubSeq(rules, 3, Len(rules)))
                  /\ r.task.kind \in {"Plot", "Trace", "Sleep"}

\* The interval has elapsed and nothing was gathered since the last
\* tonemap: the call returns Gather although trace units are available and
\* a plot unit is available too.
C23_Witness ==
    \E w \in Workers : \E time2 \in ClockReads(now) :
        /\ time2 - Retired(w).last_tonemap_time > tonemap_interval
        /\ ~Retired(w).image_changed
        /\ Call(w, time2).task.kind = "Gather"
        /\ CanTrace(Retired(w))
        /\ ~is_empty(Retired(w).available_plot_units)

(***************************************************************************)
(* C24: Retiring Plot(p, ts) appends p to the back of the done-plot queue  *)
(* and the trace units of ts, in batch order, to the back of the           *)
(* available-trace queue, and leaves the done-trace queue, the             *)
(* available-plot queue, both slots, image_changed, last_tonemap_time and  *)
(* traces_completed unchanged.                                             *)
(***************************************************************************)
C24_RetirePlotFrame ==
    \A w \in Workers :
        task[w].kind = "Plot"
        => LET old == task_scheduler
               new == Retired(w)
               ts == task[w].trace_units
               k == Len(old.available_trace_units)
           IN  /\ Len(new.done_plot_units) = Len(old.done_plot_units) + 1
               /\ new.done_plot_units[Len(new.done_plot_units)]
                     = task[w].plot_units[1]
               /\ \A i \in 1..Len(old.done_plot_units) :
                     new.done_plot_units[i] = old.done_plot_units[i]
               /\ Len(new.available_trace_units) = k + Len(ts)
               /\ \A i \in 1..k :
                     new.available_trace_units[i] = old.available_trace_units[i]
               /\ \A i \in 1..Len(ts) : new.available_trace_units[k + i] = ts[i]
               /\ new.done_trace_units = old.done_trace_units
               /\ new.available_plot_units = old.available_plot_units
               /\ new.gather_unit = old.gather_unit
               /\ new.tonemap_unit = old.tonemap_unit
               /\ new.image_changed = old.image_changed
               /\ new.last_tonemap_time = old.last_tonemap_time
               /\ new.traces_completed = old.traces_completed
               /\ new.number_of_trace_units = old.number_of_trace_units
               /\ new.performance = old.performance

\* A Plot task with a batch of three trace units is in flight while trace
\* units are available and another plot unit is done.
C24_Witness ==
    \E w \in Workers :
        /\ task[w].kind = "Plot"
        /\ Len(task[w].trace_units) = 3
        /\ ~is_empty(task_scheduler.available_trace_units)
        /\ ~is_empty(task_scheduler.done_plot_units)

(***************************************************************************)
(* C25: traces_completed is the number of Trace tasks retired since the    *)
(* last Tonemap task was retired, or since construction: it is 0 after     *)
(* construction; the step that retires a Trace task pushes its unit to the *)
(* back of the done-trace queue (before the rules take units from the      *)
(* front) and adds one to the counter; the step that retires a Tonemap     *)
(* task resets the counter to 0 and sets last_tonemap_time to the current  *)
(* time; no other step changes the counter or last_tonemap_time.           *)
(***************************************************************************)
C25_TracesCompleted ==
    /\ (task_scheduler = TaskScheduler_new(concurrency, 0)
           => task_scheduler.traces_completed = 0)
    /\ [][/\ \A w \in Retiring("Trace") :
                /\ task_scheduler'.traces_completed
                      = task_scheduler.traces_completed + 1
                /\ task_scheduler'.last_tonemap_time
                      = task_scheduler.last_tonemap_time
                /\ LET pushed == Append(task_scheduler.done_trace_units,
                                        task[w].trace_units[1])
                       left == Len(task_scheduler'.done_trace_units)
                   IN  task_scheduler'.done_trace_units
                          = SubSeq(pushed, Len(pushed) - left + 1, Len(pushed))
          /\ \A w \in Retiring("Tonemap") :
                /\ task_scheduler'.traces_completed = 0
                /\ task_scheduler'.last_tonemap_time = now
          /\ (Retiring("Trace") = {} /\ Retiring("Tonemap") = {})
                => /\ task_scheduler'.traces_completed
                         = task_scheduler.traces_completed
                   /\ task_scheduler'.last_tonemap_time
                         = task_scheduler.last_tonemap_time
         ]_vars

\* Traces were counted again after a Tonemap task was retired, and fewer
\* than before it.
C25_Witness ==
    /\ task_scheduler.performance >= 1
    /\ task_scheduler.traces_completed >= 1
    /\ task_scheduler.last_tonemap_time > tonemap_interval

(***************************************************************************)
(* C26: In any state where no Trace, Plot, Gather or Tonemap task is in    *)
(* flight, get_new_task returns a task other than Sleep; and a single      *)
(* worker, which returns each task before it requests the next, never      *)
(* receives Sleep.                                                         *)
(***************************************************************************)
NothingInFlight == \A w \in Workers : task[w].kind = "Sleep"

\* Once w has returned its task no task is in flight.
LastInFlight(w) == \A v \in Workers \ {w} : task[v].kind = "Sleep"

C26_NoSleepWhenIdle ==
    /\ NothingInFlight
          => /\ Actionable(task_scheduler)
             /\ \A time \in ClockReads(now) :
                   decide(task_scheduler, time).task.kind
                      \in {"Trace", "Plot", "Gather", "Tonemap"}
    /\ \A w \in Workers : \A time2 \in ClockReads(now) :
          LastInFlight(w)
          => /\ Actionable(Retired(w))
             /\ Call(w, time2).task.kind
                   \in {"Trace", "Plot", "Gather", "Tonemap"}
    /\ (workers = 1 /\ task[1].kind = "Sleep")
          => task_scheduler = TaskScheduler_new(concurrency, 0)

\* A single worker retires a Trace task when no trace unit is available
\* and the plot unit is done: it is handed a Gather task.
C26_Witness ==
    /\ workers = 1
    /\ LastInFlight(1)
    /\ task[1].kind = "Trace"
    /\ is_empty(task_scheduler.available_trace_units)
    /\ is_empty(task_scheduler.available_plot_units)
    /\ Call(1, now).task.kind = "Gather"

(***************************************************************************)
(* C27: The accumulation buffer is never used by two tasks at once: at     *)
(* most one Gather or Tonemap task is in flight; whenever the tonemap slot *)
(* is empty the gather slot is empty too; and while a Tonemap task is in   *)
(* flight no call of another worker returns or retires a Gather task or    *)
(* changes image_changed.                                                  *)
(***************************************************************************)
C27_OneUserOfGatherUnit ==
    /\ Cardinality({w \in Workers : task[w].kind \in {"Gather", "Tonemap"}}) <= 1
    /\ task_scheduler.tonemap_unit = None => task_scheduler.gather_unit = None
    /\ \A v \in Workers :
          task[v].kind = "Tonemap"
          => /\ task[v].gather_unit # None
             /\ task_scheduler.image_changed
             /\ \A w \in Workers \ {v} : \A time2 \in ClockReads(now) :
                   /\ task[w].kind # "Gather"
                   /\ Call(w, time2).task.kind \notin {"Gather", "Tonemap"}
                   /\ Retired(w).image_changed = task_scheduler.image_changed

\* A Tonemap task is in flight while a plot unit is done, and another
\* worker, who retires a Trace task, is not handed a Gather task.
C27_Witness ==
    \E v, w \in Workers :
        /\ task[v].kind = "Tonemap"
        /\ task[w].kind = "Trace"
        /\ ~is_empty(task_scheduler.done_plot_units)
        /\ Call(w, now).task.kind \in {"Trace", "Plot", "Sleep"}
        /\ Retired(w).image_changed

(***************************************************************************)
(* C28: A call that retires a Gather task when the time since              *)
(* last_tonemap_time exceeds the tonemap interval returns a Tonemap task   *)
(* in that same call, on the gather unit it retired and the tonemap unit,  *)
(* whose slot was populated; after the call both slots are empty, so no    *)
(* other worker gets the gather unit in between.                           *)
(***************************************************************************)
C28_GatherThenTonemap ==
    \A w \in Workers : \A time2 \in ClockReads(now) :
        (/\ task[w].kind = "Gather"
         /\ time2 - task_scheduler.last_tonemap_time > tonemap_interval)
        => LET r == Call(w, time2)
           IN  /\ is_some(task_scheduler.tonemap_unit)
               /\ Retired(w).image_changed
               /\ r.task = Tonemap(task_scheduler.tonemap_unit[1],
                                   task[w].gather_unit[1])
               /\ r.self.gather_unit = None
               /\ r.self.tonemap_unit = None
               /\ r.self.available_plot_units
                     = task_scheduler.available_plot_units \o task[w].plot_units

\* A Gather task is in flight when the interval has elapsed, while trace
\* units are available and more than half of the trace units are done.
C28_Witness ==
    \E w \in Workers :
        /\ task[w].kind = "Gather"
        /\ now - task_scheduler.last_tonemap_time > tonemap_interval
        /\ ~is_empty(task_scheduler.available_trace_units)
        /\ Call(w, now).task.kind = "Tonemap"

(***************************************************************************)
(* C29: Each unit follows a strict cycle under any interleaving: a trace   *)
(* unit goes available -> Trace task -> done -> Plot task -> available and *)
(* a plot unit goes available -> Plot task -> done -> Gather task ->       *)
(* available.  In one step a unit stays where it is, moves to the next     *)
(* place of its cycle, or, retired and handed out again in the same call,  *)
(* from a task through the queue to the next task.                         *)
(***************************************************************************)
\* Where trace unit u is: the name of the queue, or the variant of the
\* task that holds it.
TracePlace(u, ts, tasks) ==
    IF u \in Elems(ts.available_trace_units) THEN "available"
    ELSE IF u \in Elems(ts.done_trace_units) THEN "done"
    ELSE IF \E w \in Workers : u \in Elems(tasks[w].trace_units)
    THEN tasks[CHOOSE w \in Workers : u \in Elems(tasks[w].trace_units)].kind
    ELSE "lost"

PlotPlace(u, ts, tasks) ==
    IF u \in Elems(ts.available_plot_units) THEN "available"
    ELSE IF u \in Elems(ts.done_plot_units) THEN "done"
    ELSE IF \E w \in Workers : u \in Elems(tasks[w].plot_units)
    THEN tasks[CHOOSE w \in Workers : u \in Elems(tasks[w].plot_units)].kind
    ELSE "lost"

\* The tasks that hold unit u, as <<worker, task>>.
TraceHolders(u, tasks) ==
    {<<w, tasks[w]>> : w \in {v \in Workers : u \in Elems(tasks[v].trace_units)}}

PlotHolders(u, tasks) ==
    {<<w, tasks[w]>> : w \in {v \in Workers : u \in Elems(tasks[v].plot_units)}}

\* The moves of one step: stay, move to the next place, or move through a
\* queue, retired and handed out again by the same call.
TraceCycle ==
    {<<"available", "Trace">>, <<"Trace", "done">>, <<"done", "Plot">>,
     <<"Plot", "available">>, <<"Trace", "Plot">>, <<"Plot", "Trace">>}

PlotCycle ==
    {<<"available", "Plot">>, <<"Plot", "done">>, <<"done", "Gather">>,
     <<"Gather", "available">>, <<"Plot", "Gather">>, <<"Gather", "Plot">>}

C29_UnitCycle ==
    [][/\ \A u \in TraceIds :
             LET from == TracePlace(u, task_scheduler, task)
                 to == TracePlace(u, task_scheduler', task')
             IN  IF TraceHolders(u, task') = TraceHolders(u, task)
                 THEN from = to
                 ELSE <<from, to>> \in TraceCycle
       /\ \A u \in PlotIds :
             LET from == PlotPlace(u, task_scheduler, task)
                 to == PlotPlace(u, task_scheduler', task')
             IN  IF PlotHolders(u, task') = PlotHolders(u, task)
                 THEN from = to
                 ELSE <<from, to>> \in PlotCycle
      ]_vars

\* A worker retires a Plot task and is handed, in the same call, a Gather
\* task on the plot unit it retired, while another worker traces.
C29_Witness ==
    \E w, v \in Workers :
        /\ task[w].kind = "Plot"
        /\ Call(w, now).task.kind = "Gather"
        /\ task[w].plot_units[1] \in Elems(Call(w, now).task.plot_units)
        /\ task[v].kind = "Trace"

(***************************************************************************)
(* C30: No task is emitted with an empty payload: every Plot task, from    *)
(* the backpressure rule or from the rule after the Trace rule, carries    *)
(* one plot unit and at least one trace unit, and every Gather task, from  *)
(* the periodic rule or from the drain rule, carries the gather unit and   *)
(* at least one plot unit; every Trace task carries one trace unit.        *)
(***************************************************************************)
NonEmptyPayload(t) ==
    /\ t.kind = "Trace" => Len(t.trace_units) = 1
    /\ t.kind = "Plot" => Len(t.plot_units) = 1 /\ Len(t.trace_units) >= 1
    /\ t.kind = "Gather" => Len(t.gather_unit) = 1 /\ Len(t.plot_units) >= 1
    /\ t.kind = "Tonemap" => Len(t.gather_unit) = 1 /\ Len(t.tonemap_unit) = 1

C30_NonEmptyPayload ==
    /\ \A w \in Workers : NonEmptyPayload(task[w])
    /\ \A w \in Workers : \A time2 \in ClockReads(now) :
          NonEmptyPayload(Call(w, time2).task)

\* The rule after the Trace rule emits a Plot task on the only done trace
\* unit, no trace unit being available.
C30_Witness ==
    \E w \in Workers :
        /\ Call(w, now).task.kind = "Plot"
        /\ Len(Retired(w).done_trace_units) = 1
        /\ is_empty(Retired(w).available_trace_units)

====
